---- MODULE Spec2Model ----
(***************************************************************************)
(* A model of the bingo room server: RoomManager (room-manager.ts),        *)
(* GameManager (game-manager.ts) and the HTTP / WebSocket handlers of      *)
(* server.ts.  JavaScript runs every handler to completion on one thread,  *)
(* so each handler invocation is one action.                               *)
(***************************************************************************)
EXTENDS Integers, Sequences, FiniteSets, TLC

\* ------------------------------------------------------------------ bounds
\* Number of vocabulary words the model samples (the code's list has 12).
NumWords == 1
\* Number of distinct player uuids the model can hand out or receive.
NumIds == 3
\* WebSocket connections accepted over the life of the process.
MaxConns == 2
\* Largest maxPlayers a create request asks for.
MaxCapacity == 2
\* Pending eviction timers the model keeps.
MaxTimers == 2
\* The clock advances in steps of TickMs, MaxTicks times.
MaxTicks == 2
TickMs == 150000
\* HTTP requests and WebSocket messages the server handles in one run.
MaxRequests == 6
\* The same, in the runs where no game message arrives.
MaxRoomRequests == 7
\* The same, in the runs of one game, the host's callNumber messages aside.
MaxGameRequests == 6
\* The same, in the runs about settings.
MaxSettingsRequests == 5
\* The same, in the runs about room creation.
MaxCreateRequests == 4
\* The same, in the runs where a send can throw.
MaxSendRequests == 7
\* Outcomes of Math.random() the model samples: numbers 1..MaxDraw.
MaxDraw == 2
\* numberCalled broadcasts remembered per game.
MaxCalls == 2
\* winner broadcasts remembered per game.
MaxWins == 2
\* The same as MaxRequests, in the runs about who may send what.
MaxAuthRequests == 6
\* Browser pages, each with one BingoGame.
NumBrowsers == 2
\* WebSocket objects of one RTCClient that are not closed at one time.
MaxSockets == 3
\* Calls of connect and disconnect by the owner of an RTCClient.
MaxRtcCalls == 3
\* Largest reconnectAttempts at which a close event is still followed.
MaxAttemptsSeen == 7
\* Button presses and page requests in the runs with browser pages.
MaxClicks == 7

\* --------------------------------------------------------- program constants
\* setTimeout delay of the eviction check.
EvictionDelayMs == 300000

Words == 1..NumWords
\* A room code is `${word1}-${word2}`.
Codes == Words \X Words
PlayerIds == 1..NumIds
\* null / undefined
NoId == 0
CodeIndex(c) == (c[1] - 1) * NumWords + c[2]
\* roomId = v4.generate(): a uuid that is no player's id.
RoomId(c) == NumIds + CodeIndex(c)
ConnIds == 1..MaxConns

GameTypeInputs == {"75ball"}
StakeInputs == {100}
\* Every send succeeds.
NoSendFails == {}
\* What a create request can carry, valid or not.
AnyMaxPlayers == {0, 1}
AnyGameType == {"75ball", "keno"}
AnyStake == {0 - 1, 100}
\* data.settings of an updateSettings message.
SettingsPatches ==
  {[callInterval |-> 3000], [winPatterns |-> {"one-line"}, sound |-> FALSE]}
\* A pattern the room enables and verifyWin knows, one verifyWin knows that a
\* 75-ball room does not enable, and one verifyWin does not know.
PatternInputs == {"row", "one-line", "postage-stamp"}

VARIABLES
  rooms,          \* RoomManager.rooms: code -> Room
  roomCodes,      \* RoomManager.roomCodes
  onlinePlayers,  \* GameManager.onlinePlayers: id -> Player
  timers,         \* pending setTimeout callbacks, in the order they were armed
  now,            \* Date.now()
  conns,          \* handleWsConnection invocations: socket -> [state, roomCode, playerId]
  tickets,        \* player ids the HTTP API has returned and no client has used yet
  hist,           \* per live room: what was broadcast during the current game
  last,           \* the last handler that ran, its inputs and what it sent
  requests,       \* how many requests and messages have been handled
  activeGames,    \* GameManager.activeGames
  totalRoomsCreated,  \* GameManager.totalRoomsCreated
  looping,        \* the thread is inside a loop it never leaves
  sender,         \* the socket the message being handled came in on
  gameState,      \* per browser page: BingoGame.gameState (game.js)
  rtcClient       \* per browser page: BingoGame.rtcClient, an RTCClient

vars == <<rooms, roomCodes, onlinePlayers, timers, now, conns, tickets, hist, last,
          requests, activeGames, totalRoomsCreated, looping, sender, gameState, rtcClient>>

\* What no handler of the server touches.
clientVars == <<sender, gameState, rtcClient>>

\* ------------------------------------------------------------------ helpers
Min(a, b) == IF a < b THEN a ELSE b

Range(s) == {s[i] : i \in 1..Len(s)}

RemoveKey(f, k) == [x \in DOMAIN f \ {k} |-> f[x]]

\* Map<string, Player> keeps insertion order; here a sequence of players.
PlayerIdsOf(ps) == {ps[i].id : i \in 1..Len(ps)}

MapHas(ps, id) == id \in PlayerIdsOf(ps)

\* Map.set: an existing key keeps its position, a new key goes last.
MapSet(ps, p) ==
  IF MapHas(ps, p.id)
  THEN [i \in 1..Len(ps) |-> IF ps[i].id = p.id THEN p ELSE ps[i]]
  ELSE Append(ps, p)

\* Map.delete
MapDelete(ps, id) == SelectSeq(ps, LAMBDA q : q.id # id)

\* socket.readyState === WebSocket.OPEN
SocketOpen(k) == conns[k].state = "open"

\* The sockets a broadcastToRoom(roomCode, message, excludePlayerId) sends to.
Recipients(rs, c, exclude) ==
  IF c \notin DOMAIN rs THEN {}
  ELSE {rs[c].players[i].socket : i \in
          {j \in 1..Len(rs[c].players) :
              /\ rs[c].players[j].id # exclude
              /\ SocketOpen(rs[c].players[j].socket)}}

Event(type, to, who, val) == [type |-> type, to |-> to, who |-> who, val |-> val]

\* A uuid v4.generate() can return: one nothing in the state refers to.
UsedIds ==
  UNION {PlayerIdsOf(rooms[c].players) \cup {rooms[c].hostId} : c \in DOMAIN rooms}
    \cup DOMAIN onlinePlayers
    \cup {conns[k].playerId : k \in ConnIds}
    \cup {t.pid : t \in tickets}

FreshIds == PlayerIds \ UsedIds

\* The model hands out the smallest unused id: ids are only ever compared for
\* equality, so which unused one v4.generate() returns makes no difference.
v4Generate == {p \in FreshIds : \A q \in FreshIds : p <= q}

\* What the last handler was, what it was given and what it sent.
Done(op, c, pid, out) == [op |-> op, code |-> c, pid |-> pid, out |-> out]

\* ------------------------------------------------------------------ clients
Browsers == 1..NumBrowsers
\* this.ws = null
NoWs == 0
\* roomCode: null
NoCode == <<0, 0>>
\* RTCClient: this.maxReconnectAttempts = 5
maxReconnectAttempts == 5

\* RTCClient.setupDefaultHandlers: the events the constructor installs a
\* handler for.
DefaultEvents == {"ping", "playerJoined", "playerLeft", "error"}

\* BingoGame.setupWebSocketHandlers: the events the game registers a handler for.
GameEvents ==
  {"playerJoined", "playerLeft", "gameStarted", "numberCalled", "playerMarked",
   "winner", "chat"}

SockIds == 1..MaxSockets

\* A WebSocket object that is closed (readyState CLOSED), or none yet.
ClosedSock == [state |-> "closed", conn |-> NoWs, room |-> NoCode]

\* new RTCClient(): the constructor's fields after setupDefaultHandlers;
\* beside them the WebSocket objects that carry this client's callbacks
\* (socks, ws naming one of them), its pending setTimeout callbacks, and
\* whether disconnect() was the last thing its owner asked for.
NewRTCClient ==
  [ws |-> NoWs, connected |-> FALSE, connecting |-> FALSE,
   messageHandlers |-> [e \in DefaultEvents |-> "default"],
   reconnectAttempts |-> 0,
   socks |-> [i \in SockIds |-> ClosedSock],
   reconnectTimers |-> 0, connectTimers |-> 0,
   disconnectCalled |-> FALSE]

\* new BingoGame(): gameState as the constructor sets it; hasRtcClient is
\* this.rtcClient !== null, pc the await an async method is suspended at.
NewGameState ==
  [isHost |-> FALSE, roomCode |-> NoCode, playerId |-> NoId, gameStarted |-> FALSE,
   calledNumbers |-> <<>>, players |-> <<>>, hasRtcClient |-> FALSE, pc |-> "idle"]

\* --------------------------------------------------------------------- Init
Init ==
  /\ rooms = <<>>
  /\ roomCodes = {}
  /\ onlinePlayers = <<>>
  /\ timers = <<>>
  /\ now = 0
  /\ conns = [k \in ConnIds |-> [state |-> "none", roomCode |-> CHOOSE c \in Codes : TRUE,
                                 playerId |-> NoId]]
  /\ tickets = {}
  /\ hist = <<>>
  /\ last = Done("init", CHOOSE c \in Codes : TRUE, NoId, <<>>)
  /\ requests = 0
  /\ activeGames = 0
  /\ totalRoomsCreated = 0
  /\ looping = FALSE
  /\ sender = NoWs
  /\ gameState = [b \in Browsers |-> NewGameState]
  /\ rtcClient = [b \in Browsers |-> NewRTCClient]

\* ------------------------------------------------------------ GameManager
\* generateRandomNumber: the switch on gameType.
MaxNumber(gameType) ==
  CASE gameType \in {"75ball", "pattern"} -> 75
    [] gameType = "90ball" -> 90
    [] gameType = "30ball" -> 30
    [] OTHER -> 75

Letters == <<"B", "I", "N", "G", "O">>

\* generateRandomNumber: the display label of a number.
Display(gameType, number) ==
  IF gameType \in {"75ball", "pattern"}
  THEN <<Letters[Min((number - 1) \div 15, 4) + 1], number>>
  ELSE <<"", number>>

\* generateRandomNumber: Math.floor(Math.random() * maxNumber) + 1, any number
\* of 1..maxNumber whatever was drawn before; the model samples the first MaxDraw.
generateRandomNumber(gameType) == 1..Min(MaxNumber(gameType), MaxDraw)

\* calculatePrize: Math.floor(stake * playerCount * 0.8)
calculatePrize(stake, playerCount) == (stake * playerCount * 8) \div 10

\* verifyWin: the pattern names it accepts.
VerifyPatterns ==
  {"row", "column", "diagonal", "four-corners", "full-house",
   "one-line", "two-lines", "x-pattern", "frame"}

\* verifyWin(playerId, pattern, roomCode): reads neither the player nor the room.
verifyWin(playerId, pattern, c) ==
  IF pattern \in VerifyPatterns
  THEN [valid |-> TRUE, amount |-> calculatePrize(100, 10)]
  ELSE [valid |-> FALSE, amount |-> 0]

\* ------------------------------------------------------------ RoomManager
\* A slip in generateRoomCode: the loop does not look at roomCodes.
generateRoomCode_AnyCode == Codes

\* generateRoomCode: the codes the do-while loop can leave with; none when
\* every code is taken.
generateRoomCode == Codes \ roomCodes

\* getWinPatterns: patterns[gameType] || patterns['75ball']
getWinPatterns(gameType) ==
  CASE gameType = "75ball" -> {"row", "column", "diagonal", "four-corners", "full-house"}
    [] gameType = "90ball" -> {"one-line", "two-lines", "full-house"}
    [] gameType = "30ball" -> {"full-house"}
    [] gameType = "pattern" -> {"x-pattern", "frame", "postage-stamp", "small-diamond"}
    [] OTHER -> {"row", "column", "diagonal", "four-corners", "full-house"}

\* The Room object createRoom builds.
NewRoom(c, maxPlayers, gameType, stake) ==
  [id |-> RoomId(c), code |-> c, hostId |-> RoomId(c), gameType |-> gameType,
   stake |-> stake, maxPlayers |-> maxPlayers, players |-> <<>>, gameStarted |-> FALSE,
   settings |-> [autoCallNumbers |-> TRUE, callInterval |-> 7000,
                 winPatterns |-> getWinPatterns(gameType)]]

\* What the model remembers about a room beside its fields: whether a
\* gameStarted was broadcast and how many were, the numbers and winners
\* broadcast since the last one, since when the room has had no player, and
\* the player id createRoom returned.
NewHist ==
  [started |-> FALSE, called |-> <<>>, winners |-> 0, emptySince |-> now,
   games |-> 0, creator |-> NoId]

\* Map.set on rooms: the value of an existing key is replaced.
RoomsSet(f, c, v) == [x \in DOMAIN f \cup {c} |-> IF x = c THEN v ELSE f[x]]

\* POST /api/rooms/create -> RoomManager.createRoom.  With every code taken
\* the do-while loop of generateRoomCode has no way out: the call never
\* returns and, the server having one thread, nothing else runs again.
CreateRoom(maxPlayers, gameType, stake) ==
  IF generateRoomCode = {}
  THEN /\ looping' = TRUE
       /\ last' = Done("createRoom", last.code, NoId, <<>>)
       /\ UNCHANGED <<rooms, roomCodes, onlinePlayers, timers, now, conns, tickets, hist,
                      activeGames, totalRoomsCreated>>
  ELSE \E c \in generateRoomCode, playerId \in v4Generate :
         /\ rooms' = RoomsSet(rooms, c, NewRoom(c, maxPlayers, gameType, stake))
         /\ roomCodes' = roomCodes \cup {c}
         /\ totalRoomsCreated' = totalRoomsCreated + 1
         /\ hist' = RoomsSet(hist, c, [NewHist EXCEPT !.creator = playerId])
         /\ tickets' = tickets \cup {[code |-> c, pid |-> playerId, kind |-> "create"]}
         /\ last' = Done("createRoom", c, playerId, <<>>)
         /\ UNCHANGED <<onlinePlayers, timers, now, conns, activeGames, looping>>

\* The checks of joinRoom, in the code's order.
JoinRoomResult(rs, c) ==
  IF c \notin DOMAIN rs THEN "Room not found"
  ELSE IF Len(rs[c].players) >= rs[c].maxPlayers THEN "Room is full"
  ELSE IF rs[c].gameStarted THEN "Game has already started"
  ELSE "success"

\* POST /api/rooms/join -> RoomManager.joinRoom: validates, adds nobody.
JoinRoom(c) ==
  /\ \/ /\ JoinRoomResult(rooms, c) = "success"
        /\ \E playerId \in v4Generate :
             /\ tickets' = tickets \cup {[code |-> c, pid |-> playerId, kind |-> "join"]}
             /\ last' = Done("joinRoom", c, playerId, <<>>)
     \/ /\ JoinRoomResult(rooms, c) # "success"
        /\ tickets' = tickets
        /\ last' = Done("joinRoom", c, NoId, <<>>)
  /\ UNCHANGED <<rooms, roomCodes, onlinePlayers, timers, now, conns, hist,
                 activeGames, totalRoomsCreated, looping>>

\* GameManager.startGame(roomCode): generates a board, counts one more active
\* game and reports success; roomCode is not read.
startGame(c) == [success |-> TRUE]

\* POST /api/game/start -> GameManager.startGame(body.roomCode)
ApiStartGame(c) ==
  /\ activeGames' = activeGames + 1
  /\ last' = Done("apiStartGame", c, NoId,
                  <<Event("response", {}, NoId, startGame(c))>>)
  /\ UNCHANGED <<rooms, roomCodes, onlinePlayers, timers, now, conns, tickets, hist,
                 totalRoomsCreated, looping>>

\* A slip in addPlayerToRoom: every joiner takes the host role.
HostIdAfterJoin_EveryJoiner(room, playerId) == playerId

\* addPlayerToRoom: the host decision.
HostIdAfterJoin(room, playerId) ==
  IF Len(room.players) = 0 THEN playerId ELSE room.hostId

IsHostOnJoin(room, playerId) ==
  Len(room.players) = 0 \/ room.hostId = playerId

\* addPlayerToRoom, for a room that exists.
AddPlayerToRoom(room, playerId, socket) ==
  [room EXCEPT
     !.hostId = HostIdAfterJoin(room, playerId),
     !.players = MapSet(room.players,
                        [id |-> playerId, socket |-> socket,
                         isHost |-> IsHostOnJoin(room, playerId)])]

\* GameManager.addPlayer, with the Player addPlayerToRoom hands it.
addPlayer(online, playerId) ==
  [x \in DOMAIN online \cup {playerId} |->
     IF x = playerId
     THEN [joinedAt |-> now, board |-> <<>>, markedNumbers |-> {}]
     ELSE online[x]]

\* GameManager.removePlayer
removePlayer(online, playerId) == RemoveKey(online, playerId)

\* removePlayerFromRoom: the player the host role goes to.
NewHost(ps) == ps[1].id

\* A slip in removePlayerFromRoom: the host role stays with whoever left.
HostReassigned_Never(room, playerId) == FALSE

\* removePlayerFromRoom: the test before the host role moves.
HostReassigned(room, playerId) ==
  playerId = room.hostId /\ Len(MapDelete(room.players, playerId)) > 0

\* removePlayerFromRoom, the room it leaves behind.
RoomAfterRemove(room, playerId) ==
  LET ps == MapDelete(room.players, playerId) IN
  IF HostReassigned(room, playerId)
  THEN [room EXCEPT !.hostId = NewHost(ps),
                    !.players = [i \in 1..Len(ps) |->
                                   IF ps[i].id = NewHost(ps)
                                   THEN [ps[i] EXCEPT !.isHost = TRUE] ELSE ps[i]]]
  ELSE [room EXCEPT !.players = ps]

\* removePlayerFromRoom: setTimeout is called when the room is left empty.
ArmsEviction(room, playerId) == Len(MapDelete(room.players, playerId)) = 0

\* removePlayerFromRoom followed by the caller's playerLeft broadcast
\* (case "leave" and the finally block of handleWsConnection).  k is the socket
\* whose handler runs, cs the state of the sockets when it runs, bad the
\* sockets whose send throws.  RoomManager.broadcastToRoom (newHost) sends
\* with no try around it: the first throw ends the loop and leaves
\* removePlayerFromRoom, after the room was changed; case "leave" then answers
\* from its catch, the finally block lets the exception go.  broadcastToRoom of
\* server.ts (playerLeft) catches each throw and goes on.
LeavePath(op, k, c, playerId, cs, bad) ==
  IF c \notin DOMAIN rooms
  THEN /\ last' = Done(op, c, playerId, <<>>)
       /\ UNCHANGED <<rooms, roomCodes, onlinePlayers, timers, hist>>
  ELSE LET room == rooms[c]
           after == RoomAfterRemove(room, playerId)
           open == {j \in 1..Len(after.players) :
                      cs[after.players[j].socket].state = "open"}
           fails == {j \in open : after.players[j].socket \in bad}
           thrown == HostReassigned(room, playerId) /\ fails # {}
           first == CHOOSE j \in fails : \A i \in fails : j <= i
           to == {after.players[j].socket : j \in open \ fails}
           newHost == IF HostReassigned(room, playerId)
                      THEN <<Event("newHost",
                                   {after.players[j].socket : j \in
                                      {i \in open : fails = {} \/ i < first}},
                                   after.hostId, 0)>>
                      ELSE <<>>
       IN /\ ArmsEviction(room, playerId) => Len(timers) < MaxTimers
          /\ rooms' = [rooms EXCEPT ![c] = after]
          /\ onlinePlayers' = removePlayer(onlinePlayers, playerId)
          /\ timers' = IF ArmsEviction(room, playerId)
                       THEN Append(timers, [code |-> c, due |-> now + EvictionDelayMs])
                       ELSE timers
          /\ hist' = IF Len(room.players) > 0 /\ Len(after.players) = 0
                     THEN [hist EXCEPT ![c].emptySince = now] ELSE hist
          /\ last' = Done(op, c, playerId,
                          IF thrown
                          THEN newHost
                                 \o <<Event("exception", {after.players[first].socket},
                                            playerId, 0)>>
                                 \o (IF op = "leave"
                                     THEN <<Event("error", {k}, playerId,
                                                  "Invalid message format")>>
                                     ELSE <<>>)
                          ELSE newHost
                                 \o <<Event("playerLeft", to, playerId, 0)>>
                                 \o (IF fails # {}
                                     THEN <<Event("sendError",
                                                  {after.players[n].socket : n \in fails},
                                                  playerId, 0)>>
                                     ELSE <<>>))
          /\ UNCHANGED roomCodes

\* A slip in the callback: it deletes the room without looking at its players.
StillEmpty_Unchecked(rs, c) == c \in DOMAIN rs

\* The callback's test: this.rooms.get(roomCode)?.players.size === 0
StillEmpty(rs, c) == c \in DOMAIN rs /\ Len(rs[c].players) = 0

\* The setTimeout callback of removePlayerFromRoom.  Every timer has the same
\* delay, so they run in the order they were armed, none before it is due.
EvictionCheck ==
  /\ ~looping
  /\ timers # <<>>
  /\ now >= Head(timers).due
  /\ LET c == Head(timers).code
         evict == StillEmpty(rooms, c)
     IN /\ rooms' = IF evict THEN RemoveKey(rooms, c) ELSE rooms
        /\ roomCodes' = IF evict THEN roomCodes \ {c} ELSE roomCodes
        /\ hist' = IF evict THEN RemoveKey(hist, c) ELSE hist
        /\ last' = Done("evictionCheck", c, NoId, <<>>)
  /\ timers' = Tail(timers)
  /\ UNCHANGED <<onlinePlayers, now, conns, tickets, requests,
                 activeGames, totalRoomsCreated, looping>>
  /\ UNCHANGED clientVars

\* Time passes.
Tick ==
  /\ ~looping
  /\ now < MaxTicks * TickMs
  /\ now' = now + TickMs
  /\ last' = Done("tick", last.code, NoId, <<>>)
  /\ UNCHANGED <<rooms, roomCodes, onlinePlayers, timers, conns, tickets, hist, requests,
                 activeGames, totalRoomsCreated, looping>>
  /\ UNCHANGED clientVars

\* ------------------------------------------------------- handleWsConnection
\* handleWebSocket accepts a socket for /ws/<roomCode>; the room need not exist.
WsOpen(k, c) ==
  /\ conns[k].state = "none"
  /\ conns' = [conns EXCEPT ![k] = [state |-> "open", roomCode |-> c, playerId |-> NoId]]
  /\ last' = Done("open", c, NoId, <<>>)
  /\ UNCHANGED <<rooms, roomCodes, onlinePlayers, timers, now, tickets, hist,
                 activeGames, totalRoomsCreated, looping>>

\* Whether the HTTP API returned playerId for room c (and which request did).
TicketKind(c, playerId) ==
  IF [code |-> c, pid |-> playerId, kind |-> "join"] \in tickets THEN "join"
  ELSE IF [code |-> c, pid |-> playerId, kind |-> "create"] \in tickets THEN "create"
  ELSE "none"

\* case "join"; dataPlayerId = NoId stands for a message without playerId.
WsJoin(k, dataPlayerId) ==
  /\ SocketOpen(k)
  /\ \E playerId \in (IF dataPlayerId = NoId THEN v4Generate ELSE {dataPlayerId}) :
       LET c == conns[k].roomCode
           cs == [conns EXCEPT ![k].playerId = playerId]
       IN /\ conns' = cs
          /\ tickets' = {t \in tickets : t.pid # playerId}
          /\ IF c \in DOMAIN rooms
             THEN LET rs == [rooms EXCEPT ![c] = AddPlayerToRoom(rooms[c], playerId, k)] IN
                  /\ rooms' = rs
                  /\ onlinePlayers' = addPlayer(onlinePlayers, playerId)
                  /\ last' = Done("join", c, playerId,
                                  <<Event("welcome", {k}, playerId, rs[c].hostId),
                                    Event("playerJoined", Recipients(rs, c, playerId),
                                          playerId, Len(rs[c].players))>>)
             ELSE /\ last' = Done("join", c, playerId, <<>>)
                  /\ UNCHANGED <<rooms, onlinePlayers>>
  /\ UNCHANGED <<roomCodes, timers, now, hist,
                 activeGames, totalRoomsCreated, looping>>

\* case "leave" with data.playerId set (without it the case does nothing).
WsLeave(k, dataPlayerId, bad) ==
  /\ SocketOpen(k)
  /\ LeavePath("leave", k, conns[k].roomCode, dataPlayerId, conns, bad)
  /\ UNCHANGED <<now, conns, tickets,
                 activeGames, totalRoomsCreated, looping>>

\* The socket closes: the for-await loop ends and the finally block runs.
WsClose(k, bad) ==
  /\ SocketOpen(k)
  /\ LET cs == [conns EXCEPT ![k].state = "closed"] IN
     /\ conns' = cs
     /\ IF conns[k].playerId # NoId
        THEN LeavePath("close", k, conns[k].roomCode, conns[k].playerId, cs, bad)
        ELSE /\ last' = Done("close", conns[k].roomCode, NoId, <<>>)
             /\ UNCHANGED <<rooms, roomCodes, onlinePlayers, timers, hist>>
  /\ UNCHANGED <<now, tickets,
                 activeGames, totalRoomsCreated, looping>>

\* case "startGame"
WsStartGame(k, dataPlayerId) ==
  /\ SocketOpen(k)
  /\ LET c == conns[k].roomCode IN
     IF c \in DOMAIN rooms /\ rooms[c].hostId = dataPlayerId /\ ~rooms[c].gameStarted
     THEN /\ rooms' = [rooms EXCEPT ![c].gameStarted = TRUE]
          /\ hist' = [hist EXCEPT ![c].started = TRUE, ![c].called = <<>>, ![c].winners = 0,
                                  ![c].games = @ + 1]
          /\ last' = Done("startGame", c, dataPlayerId,
                          <<Event("gameStarted", Recipients(rooms, c, NoId), dataPlayerId,
                                  rooms[c].gameType)>>)
     ELSE /\ last' = Done("startGame", c, dataPlayerId, <<>>)
          /\ UNCHANGED <<rooms, hist>>
  /\ UNCHANGED <<roomCodes, onlinePlayers, timers, now, conns, tickets,
                 activeGames, totalRoomsCreated, looping>>

\* A slip in case "callNumber": the host test is left out.
MayCallNumber_AnyPlayer(rs, c, dataPlayerId) ==
  c \in DOMAIN rs /\ rs[c].gameStarted

\* case "callNumber": the test before the draw.
MayCallNumber(rs, c, dataPlayerId) ==
  c \in DOMAIN rs /\ rs[c].hostId = dataPlayerId /\ rs[c].gameStarted

\* The first MaxCalls numbers broadcast in a game are remembered.
Remember(called, number) ==
  IF Len(called) < MaxCalls THEN Append(called, number) ELSE called

\* case "callNumber"
WsCallNumber(k, dataPlayerId) ==
  /\ SocketOpen(k)
  /\ LET c == conns[k].roomCode IN
     IF MayCallNumber(rooms, c, dataPlayerId)
     THEN /\ \E number \in generateRandomNumber(rooms[c].gameType) :
               /\ hist' = [hist EXCEPT ![c].called = Remember(@, number)]
               /\ last' = Done("callNumber", c, dataPlayerId,
                               <<Event("numberCalled", Recipients(rooms, c, NoId),
                                       dataPlayerId,
                                       Display(rooms[c].gameType, number))>>)
     ELSE /\ last' = Done("callNumber", c, dataPlayerId, <<>>)
          /\ UNCHANGED hist
  /\ UNCHANGED <<rooms, roomCodes, onlinePlayers, timers, now, conns, tickets,
                 activeGames, totalRoomsCreated, looping>>

\* case "markNumber": relayed to the other members as it came; nothing is
\* looked up and nothing is stored.
WsMarkNumber(k, dataPlayerId, number) ==
  /\ SocketOpen(k)
  /\ last' = Done("markNumber", conns[k].roomCode, dataPlayerId,
                  IF conns[k].roomCode \in DOMAIN rooms
                  THEN <<Event("playerMarked",
                               Recipients(rooms, conns[k].roomCode, dataPlayerId),
                               dataPlayerId, number)>>
                  ELSE <<>>)
  /\ UNCHANGED <<rooms, roomCodes, onlinePlayers, timers, now, conns, tickets, hist,
                 activeGames, totalRoomsCreated, looping>>

\* A slip in case "claimWin": the game is not ended.
EndGame_Forgotten(room) == room

\* case "claimWin": roomToEnd.gameStarted = false
EndGame(room) == [room EXCEPT !.gameStarted = FALSE]

\* case "claimWin"
WsClaimWin(k, dataPlayerId, pattern) ==
  /\ SocketOpen(k)
  /\ LET c == conns[k].roomCode
         winResult == verifyWin(dataPlayerId, pattern, c)
     IN IF winResult.valid /\ c \in DOMAIN rooms
        THEN /\ hist[c].winners < MaxWins
             /\ rooms' = [rooms EXCEPT ![c] = EndGame(@)]
             /\ hist' = [hist EXCEPT ![c].winners = @ + 1]
             /\ last' = Done("claimWin", c, dataPlayerId,
                             <<Event("winner", Recipients(rooms, c, NoId), dataPlayerId,
                                     [pattern |-> pattern, amount |-> winResult.amount])>>)
        ELSE /\ last' = Done("claimWin", c, dataPlayerId, <<>>)
             /\ UNCHANGED <<rooms, hist>>
  /\ UNCHANGED <<roomCodes, onlinePlayers, timers, now, conns, tickets,
                 activeGames, totalRoomsCreated, looping>>

\* A slip in case "updateSettings": the patch replaces the settings.
MergeSettings_Replace(settings, patch) == patch

\* case "updateSettings": { ...roomForSettings.settings, ...data.settings }
MergeSettings(settings, patch) ==
  [key \in DOMAIN settings \cup DOMAIN patch |->
     IF key \in DOMAIN patch THEN patch[key] ELSE settings[key]]

\* case "updateSettings"
WsUpdateSettings(k, dataPlayerId, patch) ==
  /\ SocketOpen(k)
  /\ LET c == conns[k].roomCode IN
     IF c \in DOMAIN rooms /\ rooms[c].hostId = dataPlayerId
     THEN /\ rooms' = [rooms EXCEPT ![c].settings = MergeSettings(@, patch)]
          /\ last' = Done("updateSettings", c, dataPlayerId,
                          <<Event("settingsUpdated", Recipients(rooms, c, NoId),
                                  dataPlayerId,
                                  MergeSettings(rooms[c].settings, patch))>>)
     ELSE /\ last' = Done("updateSettings", c, dataPlayerId, <<>>)
          /\ UNCHANGED rooms
  /\ UNCHANGED <<roomCodes, onlinePlayers, timers, now, conns, tickets, hist,
                 activeGames, totalRoomsCreated, looping>>

\* One more request or message is handled, of at most `limit` in a run.
OneMore(limit) == ~looping /\ requests < limit /\ requests' = requests + 1

\* The same, for a request no modelled browser page sent.
Counted(limit) == OneMore(limit) /\ UNCHANGED clientVars

\* The whole server: a request or message arrives and its handler runs to
\* completion, a due timer runs, or time passes.
Next ==
  \/ \E m \in 1..MaxCapacity, g \in GameTypeInputs, stake \in StakeInputs :
       Counted(MaxRequests) /\ CreateRoom(m, g, stake)
  \/ \E c \in Codes : Counted(MaxRequests) /\ JoinRoom(c)
  \/ \E k \in ConnIds, c \in Codes : Counted(MaxRequests) /\ WsOpen(k, c)
  \/ \E k \in ConnIds, p \in PlayerIds \cup {NoId} : Counted(MaxRequests) /\ WsJoin(k, p)
  \/ \E k \in ConnIds, p \in PlayerIds : Counted(MaxRequests) /\ WsLeave(k, p, NoSendFails)
  \/ \E k \in ConnIds : Counted(MaxRequests) /\ WsClose(k, NoSendFails)
  \/ \E k \in ConnIds, p \in PlayerIds : Counted(MaxRequests) /\ WsStartGame(k, p)
  \/ \E k \in ConnIds, p \in PlayerIds : Counted(MaxRequests) /\ WsCallNumber(k, p)
  \/ \E k \in ConnIds, p \in PlayerIds, pattern \in PatternInputs :
       Counted(MaxRequests) /\ WsClaimWin(k, p, pattern)
  \/ \E c \in Codes : Counted(MaxRequests) /\ ApiStartGame(c)
  \/ \E k \in ConnIds, p \in PlayerIds, number \in 1..MaxDraw :
       Counted(MaxRequests) /\ WsMarkNumber(k, p, number)
  \/ EvictionCheck
  \/ Tick

Spec == Init /\ [][Next]_vars

\* Rooms and membership only: no game message arrives.
NextRoom ==
  \/ \E m \in 1..MaxCapacity, g \in GameTypeInputs, stake \in StakeInputs :
       Counted(MaxRoomRequests) /\ CreateRoom(m, g, stake)
  \/ \E c \in Codes : Counted(MaxRoomRequests) /\ JoinRoom(c)
  \/ \E k \in ConnIds, c \in Codes : Counted(MaxRoomRequests) /\ WsOpen(k, c)
  \/ \E k \in ConnIds, p \in PlayerIds \cup {NoId} :
       Counted(MaxRoomRequests) /\ WsJoin(k, p)
  \/ \E k \in ConnIds, p \in PlayerIds : Counted(MaxRoomRequests) /\ WsLeave(k, p, NoSendFails)
  \/ \E k \in ConnIds : Counted(MaxRoomRequests) /\ WsClose(k, NoSendFails)
  \/ EvictionCheck
  \/ Tick

SpecRoom == Init /\ [][NextRoom]_vars

\* The event loop runs every due timer, and time passes.
FairSpecRoom == SpecRoom /\ WF_vars(Tick) /\ WF_vars(EvictionCheck)

\* The host of a running game sends callNumber once more.
HostCalls(k) ==
  /\ ~looping
  /\ conns[k].roomCode \in DOMAIN rooms
  /\ rooms[conns[k].roomCode].gameStarted
  /\ WsCallNumber(k, rooms[conns[k].roomCode].hostId)
  /\ UNCHANGED requests
  /\ UNCHANGED clientVars

\* One game: a room is set up and started, its host calls numbers for as long
\* as the game runs, and players claim.
NextGame ==
  \/ \E m \in 1..MaxCapacity, g \in GameTypeInputs, stake \in StakeInputs :
       Counted(MaxGameRequests) /\ CreateRoom(m, g, stake)
  \/ \E k \in ConnIds, c \in Codes : Counted(MaxGameRequests) /\ WsOpen(k, c)
  \/ \E k \in ConnIds, p \in PlayerIds \cup {NoId} :
       Counted(MaxGameRequests) /\ WsJoin(k, p)
  \/ \E k \in ConnIds, p \in PlayerIds : Counted(MaxGameRequests) /\ WsStartGame(k, p)
  \/ \E k \in ConnIds, p \in PlayerIds, pattern \in PatternInputs :
       Counted(MaxGameRequests) /\ WsClaimWin(k, p, pattern)
  \/ \E k \in ConnIds : HostCalls(k)

SpecGame == Init /\ [][NextGame]_vars

\* The host keeps calling.
FairSpecGame == SpecGame /\ WF_vars(\E k \in ConnIds : HostCalls(k))

\* Settings only: a room is set up and updateSettings messages arrive.
NextSettings ==
  \/ \E m \in 1..MaxCapacity, g \in GameTypeInputs, stake \in StakeInputs :
       Counted(MaxSettingsRequests) /\ CreateRoom(m, g, stake)
  \/ \E k \in ConnIds, c \in Codes : Counted(MaxSettingsRequests) /\ WsOpen(k, c)
  \/ \E k \in ConnIds, p \in PlayerIds \cup {NoId} :
       Counted(MaxSettingsRequests) /\ WsJoin(k, p)
  \/ \E k \in ConnIds, p \in PlayerIds, patch \in SettingsPatches :
       Counted(MaxSettingsRequests) /\ WsUpdateSettings(k, p, patch)

SpecSettings == Init /\ [][NextSettings]_vars

\* Room creation with any input, and what releases a code.
NextCreate ==
  \/ \E m \in AnyMaxPlayers, g \in AnyGameType, stake \in AnyStake :
       Counted(MaxCreateRequests) /\ CreateRoom(m, g, stake)
  \/ \E k \in ConnIds, c \in Codes : Counted(MaxCreateRequests) /\ WsOpen(k, c)
  \/ \E k \in ConnIds, p \in PlayerIds \cup {NoId} :
       Counted(MaxCreateRequests) /\ WsJoin(k, p)
  \/ \E k \in ConnIds, p \in PlayerIds : Counted(MaxCreateRequests) /\ WsLeave(k, p, NoSendFails)
  \/ EvictionCheck
  \/ Tick

SpecCreate == Init /\ [][NextCreate]_vars

\* Membership with sends that throw: while a leave or a close is handled, the
\* send of any socket but the handler's own may throw.
NextSend ==
  \/ \E m \in 1..MaxCapacity, g \in GameTypeInputs, stake \in StakeInputs :
       Counted(MaxSendRequests) /\ CreateRoom(m, g, stake)
  \/ \E k \in ConnIds, c \in Codes : Counted(MaxSendRequests) /\ WsOpen(k, c)
  \/ \E k \in ConnIds, p \in PlayerIds \cup {NoId} :
       Counted(MaxSendRequests) /\ WsJoin(k, p)
  \/ \E k \in ConnIds, p \in PlayerIds :
       \E bad \in SUBSET (ConnIds \ {k}) :
         Counted(MaxSendRequests) /\ WsLeave(k, p, bad)
  \/ \E k \in ConnIds :
       \E bad \in SUBSET (ConnIds \ {k}) :
         Counted(MaxSendRequests) /\ WsClose(k, bad)

SpecSend == Init /\ [][NextSend]_vars

\* ---------------------------------------------------------------- RTCClient
\* The slot a new WebSocket takes: a closed one (the object is garbage).
FreeSocks(r) == {i \in SockIds : r.socks[i].state = "closed"}

NewSock(r) == CHOOSE i \in FreeSocks(r) : \A j \in FreeSocks(r) : i <= j

\* connect(roomCode): nothing when connected or connecting; else a new
\* WebSocket with the callbacks of setupWebSocket, and the 10 s timer.
connect(r, roomCode) ==
  IF r.connected \/ r.connecting THEN r
  ELSE [r EXCEPT !.connecting = TRUE,
                 !.ws = NewSock(r),
                 !.socks[NewSock(r)] = [state |-> "connecting", conn |-> NoWs,
                                        room |-> roomCode],
                 !.connectTimers = @ + 1]

\* Whether connect(roomCode) creates a WebSocket.
Connects(r) == ~(r.connected \/ r.connecting)

\* A slip in handleReconnect: the attempts are not limited.
handleReconnect_NoLimit(r) ==
  [r EXCEPT !.reconnectAttempts = @ + 1, !.reconnectTimers = @ + 1]

\* handleReconnect: gives up at maxReconnectAttempts, else counts the attempt
\* and arms the timer.
handleReconnect(r) ==
  IF r.reconnectAttempts >= maxReconnectAttempts THEN r
  ELSE [r EXCEPT !.reconnectAttempts = @ + 1, !.reconnectTimers = @ + 1]

\* handleConnectionError
handleConnectionError(r) == [r EXCEPT !.connecting = FALSE]

\* ws.onopen of socket i, accepted by the server as socket k.
onopen(r, i, k) ==
  [r EXCEPT !.socks[i].state = "open", !.socks[i].conn = k,
            !.connected = TRUE, !.connecting = FALSE, !.reconnectAttempts = 0]

\* ws.onclose of socket i: whatever closed it, handleReconnect runs.
onclose(r, i) ==
  handleReconnect([r EXCEPT !.socks[i] = ClosedSock,
                            !.connected = FALSE, !.connecting = FALSE])

\* disconnect(): closes this.ws if there is one and forgets it.
disconnect(r) ==
  [r EXCEPT !.socks = IF r.ws = NoWs \/ r.socks[r.ws].state = "closed" THEN @
                      ELSE [@ EXCEPT ![r.ws].state = "closing"],
            !.ws = NoWs, !.connected = FALSE, !.connecting = FALSE,
            !.disconnectCalled = TRUE]

\* on(event, handler): registers only when the event has no handler yet.
on(r, event, handler) ==
  IF event \in DOMAIN r.messageHandlers THEN r
  ELSE [r EXCEPT !.messageHandlers =
          [e \in DOMAIN r.messageHandlers \cup {event} |->
             IF e = event THEN handler ELSE r.messageHandlers[e]]]

\* handleMessage(data): the handlers it invokes, in order: the one of
\* data.type, the one of 'message', and the one of data.type again (emit).
Invoked(r, type) ==
  (IF type \in DOMAIN r.messageHandlers THEN <<r.messageHandlers[type]>> ELSE <<>>)
    \o (IF "message" \in DOMAIN r.messageHandlers
        THEN <<r.messageHandlers["message"]>> ELSE <<>>)
    \o (IF type \in DOMAIN r.messageHandlers THEN <<r.messageHandlers[type]>> ELSE <<>>)

\* updateCalledNumber(number, caller), the handler body of numberCalled: the
\* page records the number the server announced.
updateCalledNumber(g, number) == [g EXCEPT !.calledNumbers = Append(@, number)]

\* The handlers setupWebSocketHandlers hands to on(), applied to a message.
GameHandler(g, e) ==
  CASE e.type = "playerJoined" ->
         [g EXCEPT !.players = Append(@, [id |-> e.who, isHost |-> FALSE])]
    [] e.type = "playerLeft" ->
         [g EXCEPT !.players = SelectSeq(@, LAMBDA q : q.id # e.who)]
    [] e.type = "gameStarted" -> [g EXCEPT !.gameStarted = TRUE]
    [] e.type = "numberCalled" -> updateCalledNumber(g, e.val[2])
    [] OTHER -> g

\* The handlers of a sequence run one after the other; the default handlers
\* only log.
RECURSIVE RunHandlers(_, _, _)
RunHandlers(g, handlers, e) ==
  IF handlers = <<>> THEN g
  ELSE RunHandlers(IF Head(handlers) = "game" THEN GameHandler(g, e) ELSE g,
                   Tail(handlers), e)

\* The server sockets the open WebSockets of a client are connected to.
ConnsOf(r) == {r.socks[i].conn : i \in {j \in SockIds : r.socks[j].state = "open"}}

\* ws.onmessage -> handleMessage for every message of out that is sent to a
\* socket of the client, in order.
RECURSIVE DeliverAll(_, _, _)
DeliverAll(g, r, out) ==
  IF out = <<>> THEN g
  ELSE DeliverAll(IF Head(out).to \cap ConnsOf(r) # {}
                  THEN RunHandlers(g, Invoked(r, Head(out).type), Head(out))
                  ELSE g,
                  r, Tail(out))

\* Every page has handled the messages of out that were sent to it.
Delivered(gs, rtc, out) == [b \in Browsers |-> DeliverAll(gs[b], rtc[b], out)]

\* The server socket a free handleWsConnection gets.
FreeConns == {k \in ConnIds : conns[k].state = "none"}

\* The owner of the client of page b calls connect(roomCode).
RtcConnect(b, c) ==
  /\ OneMore(MaxRtcCalls)
  /\ Connects(rtcClient[b]) => FreeSocks(rtcClient[b]) # {}
  /\ rtcClient' = [rtcClient EXCEPT
                     ![b] = [connect(rtcClient[b], c) EXCEPT !.disconnectCalled = FALSE]]
  /\ UNCHANGED <<last, rooms, roomCodes, onlinePlayers, timers, now, conns, tickets, hist,
                 activeGames, totalRoomsCreated, looping, sender, gameState>>

\* The owner of the client of page b calls disconnect().
RtcDisconnect(b) ==
  /\ OneMore(MaxRtcCalls)
  /\ rtcClient' = [rtcClient EXCEPT ![b] = disconnect(rtcClient[b])]
  /\ UNCHANGED <<last, rooms, roomCodes, onlinePlayers, timers, now, conns, tickets, hist,
                 activeGames, totalRoomsCreated, looping, sender, gameState>>

\* Socket i of page b is accepted by the server: handleWebSocket starts a
\* handleWsConnection for it, and onopen runs.
RtcOpen(b, i) ==
  /\ ~looping
  /\ rtcClient[b].socks[i].state = "connecting"
  /\ \E k \in {j \in FreeConns : \A n \in FreeConns : j <= n} :
       /\ WsOpen(k, rtcClient[b].socks[i].room)
       /\ rtcClient' = [rtcClient EXCEPT ![b] = onopen(rtcClient[b], i, k)]
  /\ UNCHANGED <<requests, sender, gameState>>

\* Socket i of page b never got to the server, or was closed before it did:
\* onerror (which rejects the promise of setupWebSocket, so that connect runs
\* handleConnectionError) and then onclose.
RtcFail(b, i) ==
  /\ rtcClient[b].socks[i].conn = NoWs
  /\ rtcClient[b].socks[i].state \in {"connecting", "closing"}
  /\ rtcClient[b].reconnectAttempts < MaxAttemptsSeen
  /\ rtcClient' = [rtcClient EXCEPT
                     ![b] = onclose(handleConnectionError(rtcClient[b]), i)]
  /\ UNCHANGED <<last, rooms, roomCodes, onlinePlayers, timers, now, conns, tickets, hist,
                 requests, activeGames, totalRoomsCreated, looping, sender, gameState>>

\* The connection of socket i of page b ends, closed by the page or lost: the
\* for-await loop of handleWsConnection ends and its finally block runs, and
\* onclose runs in the page.
RtcClose(b, i) ==
  /\ ~looping
  /\ rtcClient[b].socks[i].conn # NoWs
  /\ rtcClient[b].socks[i].state \in {"open", "closing"}
  /\ rtcClient[b].reconnectAttempts < MaxAttemptsSeen
  /\ WsClose(rtcClient[b].socks[i].conn, NoSendFails)
  /\ rtcClient' = [rtcClient EXCEPT ![b] = onclose(rtcClient[b], i)]
  /\ gameState' = Delivered(gameState, rtcClient', last'.out)
  /\ UNCHANGED <<requests, sender>>

\* The 10 s timer of setupWebSocket runs.
RtcConnectTimeout(b) ==
  /\ rtcClient[b].connectTimers > 0
  /\ rtcClient' = [rtcClient EXCEPT
       ![b] = [(IF ~rtcClient[b].connected /\ rtcClient[b].connecting
                THEN handleConnectionError(rtcClient[b]) ELSE rtcClient[b])
               EXCEPT !.connectTimers = @ - 1]]
  /\ UNCHANGED <<last, rooms, roomCodes, onlinePlayers, timers, now, conns, tickets, hist,
                 requests, activeGames, totalRoomsCreated, looping, sender, gameState>>

\* The timer of handleReconnect runs: connect(this.currentRoomCode) unless
\* connected.  currentRoomCode is set nowhere: the url names no room.
RtcReconnectTimer(b) ==
  /\ rtcClient[b].reconnectTimers > 0
  /\ (~rtcClient[b].connected /\ Connects(rtcClient[b])) => FreeSocks(rtcClient[b]) # {}
  /\ rtcClient' = [rtcClient EXCEPT
       ![b] = [(IF ~rtcClient[b].connected
                THEN connect(rtcClient[b], NoCode) ELSE rtcClient[b])
               EXCEPT !.reconnectTimers = @ - 1]]
  /\ UNCHANGED <<last, rooms, roomCodes, onlinePlayers, timers, now, conns, tickets, hist,
                 requests, activeGames, totalRoomsCreated, looping, sender, gameState>>

\* The pages whose RTCClient is followed through connection failures.
RtcBrowsers == {1}

\* One RTCClient and its connections: its owner connects and disconnects,
\* sockets open, fail and close, and the timers run.
NextRtc ==
  \/ \E b \in RtcBrowsers, c \in Codes : RtcConnect(b, c)
  \/ \E b \in RtcBrowsers : RtcDisconnect(b)
  \/ \E b \in RtcBrowsers, i \in SockIds : RtcOpen(b, i)
  \/ \E b \in RtcBrowsers, i \in SockIds : RtcFail(b, i)
  \/ \E b \in RtcBrowsers, i \in SockIds : RtcClose(b, i)
  \/ \E b \in RtcBrowsers : RtcConnectTimeout(b)
  \/ \E b \in RtcBrowsers : RtcReconnectTimer(b)

SpecRtc == Init /\ [][NextRtc]_vars

\* Every socket event arrives and every timer runs.
FairSpecRtc ==
  /\ SpecRtc
  /\ \A b \in RtcBrowsers :
       /\ WF_vars(RtcConnectTimeout(b))
       /\ WF_vars(RtcReconnectTimer(b))
       /\ \A i \in SockIds : WF_vars(RtcFail(b, i) \/ RtcClose(b, i))

\* ---------------------------------------------------------------- BingoGame
\* RTCClient.send: whether the message goes out (connected, and this.ws is a
\* socket that is open; on any other socket ws.send throws and send returns
\* false).
Sends(r) == r.connected /\ r.ws # NoWs /\ r.socks[r.ws].state = "open"

\* The server socket this.ws is connected to.
SendConn(r) == r.socks[r.ws].conn

\* The message was not sent: the server handles nothing.
NotSent(op, c) ==
  /\ last' = Done(op, c, NoId, <<>>)
  /\ UNCHANGED <<rooms, roomCodes, onlinePlayers, timers, now, conns, tickets, hist,
                 activeGames, totalRoomsCreated, looping, sender>>

\* The events setupWebSocketHandlers calls on() for, in its order.
GameEventSeq ==
  <<"playerJoined", "playerLeft", "gameStarted", "numberCalled", "playerMarked",
    "winner", "chat">>

\* setupWebSocketHandlers: this.rtcClient.on(event, handler) for each.
RECURSIVE setupWebSocketHandlers(_, _)
setupWebSocketHandlers(r, events) ==
  IF events = <<>> THEN r
  ELSE setupWebSocketHandlers(on(r, Head(events), "game"), Tail(events))

\* this.generateRandomNumber() of BingoGame.callNumber: a number of the
\* variant's range, drawn in the page.
PageRandomNumber == 1..MaxDraw

\* The page was just loaded, or has left its room and its client is idle:
\* createRoom and joinRoom start from here with a new RTCClient.
FreshPage(b) ==
  /\ gameState[b].pc = "idle"
  /\ gameState[b].roomCode = NoCode
  /\ \A i \in SockIds : rtcClient[b].socks[i].state = "closed"
  /\ rtcClient[b].reconnectTimers = 0

\* BingoGame.createRoom up to `await this.rtcClient.connect(...)`: a new
\* RTCClient, the create request and, after its answer, the page takes itself
\* for the host and connects.  When the request is never answered the method
\* stays at its fetch.
BingoCreateRoom(b, maxPlayers, gameType, stake) ==
  /\ OneMore(MaxClicks)
  /\ FreshPage(b)
  /\ CreateRoom(maxPlayers, gameType, stake)
  /\ IF looping'
     THEN /\ gameState' = [gameState EXCEPT ![b].hasRtcClient = TRUE,
                                            ![b].pc = "createRoom:fetch"]
          /\ rtcClient' = [rtcClient EXCEPT ![b] = NewRTCClient]
     ELSE /\ gameState' = [gameState EXCEPT ![b].hasRtcClient = TRUE,
                                            ![b].isHost = TRUE,
                                            ![b].roomCode = last'.code,
                                            ![b].playerId = last'.pid,
                                            ![b].pc = "createRoom:connect"]
          /\ rtcClient' = [rtcClient EXCEPT ![b] = connect(NewRTCClient, last'.code)]
  /\ UNCHANGED sender

\* BingoGame.createRoom after connect: the page lists itself as the host.
\* No join message is sent and no handler is registered.
BingoCreateRoomConnected(b) ==
  /\ ~looping
  /\ gameState[b].pc = "createRoom:connect"
  /\ ~rtcClient[b].connecting
  /\ gameState' = [gameState EXCEPT
                     ![b].players = <<[id |-> gameState[b].playerId, isHost |-> TRUE]>>,
                     ![b].pc = "idle"]
  /\ last' = Done("createRoom:connected", gameState[b].roomCode, gameState[b].playerId, <<>>)
  /\ UNCHANGED <<rooms, roomCodes, onlinePlayers, timers, now, conns, tickets, hist,
                 requests, activeGames, totalRoomsCreated, looping, sender, rtcClient>>

\* BingoGame.joinRoom up to `await this.rtcClient.connect(...)`.
BingoJoinRoom(b, c) ==
  /\ OneMore(MaxClicks)
  /\ FreshPage(b)
  /\ JoinRoom(c)
  /\ IF last'.pid # NoId
     THEN /\ gameState' = [gameState EXCEPT ![b].hasRtcClient = TRUE,
                                            ![b].isHost = FALSE,
                                            ![b].roomCode = c,
                                            ![b].playerId = last'.pid,
                                            ![b].pc = "joinRoom:connect"]
          /\ rtcClient' = [rtcClient EXCEPT ![b] = connect(NewRTCClient, c)]
     ELSE /\ gameState' = [gameState EXCEPT ![b].hasRtcClient = TRUE]
          /\ rtcClient' = [rtcClient EXCEPT ![b] = NewRTCClient]
  /\ UNCHANGED sender

\* BingoGame.joinRoom after connect: setupWebSocketHandlers, then the join
\* message with the page's playerId; the server handles it and the pages it
\* sends to handle what they get.
BingoJoinRoomConnected(b) ==
  /\ OneMore(MaxClicks)
  /\ gameState[b].pc = "joinRoom:connect"
  /\ ~rtcClient[b].connecting
  /\ rtcClient' = [rtcClient EXCEPT
                     ![b] = setupWebSocketHandlers(rtcClient[b], GameEventSeq)]
  /\ IF Sends(rtcClient[b])
     THEN /\ WsJoin(SendConn(rtcClient[b]), gameState[b].playerId)
          /\ sender' = SendConn(rtcClient[b])
     ELSE NotSent("join:notSent", gameState[b].roomCode)
  /\ gameState' = Delivered([gameState EXCEPT ![b].pc = "idle"], rtcClient', last'.out)

\* BingoGame.startGame up to its fetch: only for a page that takes itself for
\* the host; POST /api/game/start.
BingoStartGame(b) ==
  /\ OneMore(MaxClicks)
  /\ gameState[b].pc = "idle"
  /\ gameState[b].isHost
  /\ ApiStartGame(gameState[b].roomCode)
  /\ gameState' = [gameState EXCEPT ![b].pc = "startGame:fetch"]
  /\ UNCHANGED <<sender, rtcClient>>

\* BingoGame.startGame after the answer: the startGame message, which has
\* type, gameType and board and no playerId, then startMultiplayerGame.
BingoStartGameSend(b) ==
  /\ OneMore(MaxClicks)
  /\ gameState[b].pc = "startGame:fetch"
  /\ IF Sends(rtcClient[b])
     THEN /\ WsStartGame(SendConn(rtcClient[b]), NoId)
          /\ sender' = SendConn(rtcClient[b])
     ELSE NotSent("startGame:notSent", gameState[b].roomCode)
  /\ gameState' = Delivered([gameState EXCEPT ![b].gameStarted = TRUE, ![b].pc = "idle"],
                            rtcClient, last'.out)
  /\ UNCHANGED rtcClient

\* BingoGame.callNumber: the page draws a number itself, pushes it on
\* calledNumbers, shows it, pushes it again in addCalledNumber, and sends a
\* callNumber message with number and caller and no playerId.
BingoCallNumber(b, number) ==
  /\ OneMore(MaxClicks)
  /\ gameState[b].isHost
  /\ gameState[b].gameStarted
  /\ IF Sends(rtcClient[b])
     THEN /\ WsCallNumber(SendConn(rtcClient[b]), NoId)
          /\ sender' = SendConn(rtcClient[b])
     ELSE NotSent("callNumber:notSent", gameState[b].roomCode)
  /\ gameState' = Delivered(
       [gameState EXCEPT ![b].calledNumbers = Append(Append(@, number), number)],
       rtcClient, last'.out)
  /\ UNCHANGED rtcClient

\* BingoGame.leaveRoom: the leave message with the page's playerId,
\* disconnect(), and a new gameState.
BingoLeaveRoom(b) ==
  /\ OneMore(MaxClicks)
  /\ gameState[b].hasRtcClient
  /\ gameState[b].roomCode # NoCode
  /\ IF Sends(rtcClient[b]) /\ gameState[b].playerId # NoId
     THEN /\ WsLeave(SendConn(rtcClient[b]), gameState[b].playerId, NoSendFails)
          /\ sender' = SendConn(rtcClient[b])
     ELSE NotSent("leave:notSent", gameState[b].roomCode)
  /\ rtcClient' = [rtcClient EXCEPT ![b] = disconnect(rtcClient[b])]
  /\ gameState' = Delivered(
       [gameState EXCEPT ![b] = [NewGameState EXCEPT !.hasRtcClient = TRUE]],
       rtcClient', last'.out)

\* Browser pages and the server: rooms are created, joined, started, played
\* and left through the buttons of the page; a room can also be created by a
\* client that is not one of the pages.
NextPage ==
  \/ \E m \in 1..MaxCapacity, g \in GameTypeInputs, stake \in StakeInputs :
       Counted(MaxClicks) /\ CreateRoom(m, g, stake)
  \/ \E b \in Browsers, m \in 1..MaxCapacity, g \in GameTypeInputs, stake \in StakeInputs :
       BingoCreateRoom(b, m, g, stake)
  \/ \E b \in Browsers : BingoCreateRoomConnected(b)
  \/ \E b \in Browsers, c \in Codes : BingoJoinRoom(b, c)
  \/ \E b \in Browsers : BingoJoinRoomConnected(b)
  \/ \E b \in Browsers, i \in SockIds : RtcOpen(b, i)
  \/ \E b \in Browsers : BingoStartGame(b)
  \/ \E b \in Browsers : BingoStartGameSend(b)
  \/ \E b \in Browsers, number \in PageRandomNumber : BingoCallNumber(b, number)
  \/ \E b \in Browsers : BingoLeaveRoom(b)
  \/ \E b \in Browsers, i \in SockIds : RtcClose(b, i)

SpecPage == Init /\ [][NextPage]_vars

\* One more message is handled, which came in on socket k.
From(k, limit) == OneMore(limit) /\ sender' = k /\ UNCHANGED <<gameState, rtcClient>>

\* Who may send what: membership and the host's messages, with the socket
\* each message came in on.
NextAuth ==
  \/ \E m \in 1..MaxCapacity, g \in GameTypeInputs, stake \in StakeInputs :
       Counted(MaxAuthRequests) /\ CreateRoom(m, g, stake)
  \/ \E k \in ConnIds, c \in Codes : From(k, MaxAuthRequests) /\ WsOpen(k, c)
  \/ \E k \in ConnIds, p \in PlayerIds \cup {NoId} :
       From(k, MaxAuthRequests) /\ WsJoin(k, p)
  \/ \E k \in ConnIds, p \in PlayerIds :
       From(k, MaxAuthRequests) /\ WsLeave(k, p, NoSendFails)
  \/ \E k \in ConnIds : From(k, MaxAuthRequests) /\ WsClose(k, NoSendFails)
  \/ \E k \in ConnIds, p \in PlayerIds : From(k, MaxAuthRequests) /\ WsStartGame(k, p)
  \/ \E k \in ConnIds, p \in PlayerIds : From(k, MaxAuthRequests) /\ WsCallNumber(k, p)
  \/ \E k \in ConnIds, p \in PlayerIds, patch \in SettingsPatches :
       From(k, MaxAuthRequests) /\ WsUpdateSettings(k, p, patch)

SpecAuth == Init /\ [][NextAuth]_vars

\* ------------------------------------------------------------------ claims

\* C1: in every reachable state each room's players.size is at most its
\* maxPlayers.
C1_PlayersWithinCapacity ==
  \A c \in DOMAIN rooms : Len(rooms[c].players) <= rooms[c].maxPlayers

\* C2: during one game at most one winner broadcast is emitted for a room.
C2_OneWinnerPerGame ==
  \A c \in DOMAIN hist : hist[c].started => hist[c].winners <= 1

\* The cells of a 5x5 board (stored column by column) a pattern asks for; a
\* pattern is covered when one of its lines is.
PatternLines(pattern, board) ==
  CASE pattern = "row" -> {{col * 5 + r + 1 : col \in 0..4} : r \in 0..4}
    [] pattern = "column" -> {{col * 5 + r + 1 : r \in 0..4} : col \in 0..4}
    [] pattern = "diagonal" -> {{i * 5 + i + 1 : i \in 0..4}, {i * 5 + (4 - i) + 1 : i \in 0..4}}
    [] pattern = "four-corners" -> {{1, 5, 21, 25}}
    [] pattern = "x-pattern" ->
         {{i * 5 + i + 1 : i \in 0..4} \cup {i * 5 + (4 - i) + 1 : i \in 0..4}}
    [] pattern = "frame" ->
         {{col * 5 + r + 1 : col \in {0, 4}, r \in 0..4} \cup
          {col * 5 + r + 1 : col \in 0..4, r \in {0, 4}}}
    [] OTHER -> {1..Len(board)}

\* The pattern is covered by numbers of the board that are marked and called.
Covered(board, markedNumbers, called, pattern) ==
  /\ Len(board) > 0
  /\ \E line \in PatternLines(pattern, board) :
       /\ line \subseteq 1..Len(board)
       /\ \A i \in line : board[i] \in markedNumbers \cap Range(called)

\* C3: a winner broadcast is emitted only for a claimant whose stored board
\* and markedNumbers cover the claimed pattern with called numbers.
C3_WinnerOnlyIfCovered ==
  \A i \in 1..Len(last.out) :
    last.out[i].type = "winner" =>
      /\ last.out[i].who \in DOMAIN onlinePlayers
      /\ Covered(onlinePlayers[last.out[i].who].board,
                 onlinePlayers[last.out[i].who].markedNumbers,
                 hist[last.code].called, last.out[i].val.pattern)

\* C4: the numbers called during one game are pairwise different and no more
\* than the variant's range.
C4_CallsDistinct ==
  \A c \in DOMAIN hist :
    /\ Cardinality(Range(hist[c].called)) = Len(hist[c].called)
    /\ Len(hist[c].called) <= MaxNumber(rooms[c].gameType)

\* C5: a room's hostId is absent or the id of one of its players.
C5_HostIsMember ==
  \A c \in DOMAIN rooms :
    rooms[c].hostId = NoId \/ MapHas(rooms[c].players, rooms[c].hostId)

\* A handler of a join message has just added last'.pid to room c.
JoinedStep(c) ==
  /\ last'.op = "join" /\ last'.code = c
  /\ c \in DOMAIN rooms /\ c \in DOMAIN rooms'

\* C6: the joiner of a room without players becomes its host, and a joiner of a
\* room with players does not: the host stays who it was.
C6_FirstJoinerIsHost ==
  [][\A c \in Codes :
       JoinedStep(c) =>
         /\ rooms'[c].hostId =
              (IF Len(rooms[c].players) = 0 THEN last'.pid ELSE rooms[c].hostId)
         /\ \A i \in 1..Len(rooms'[c].players) :
              rooms'[c].players[i].id = last'.pid =>
                (rooms'[c].players[i].isHost <=> rooms'[c].hostId = last'.pid)]_vars

\* A second player has joined and the first joiner is still the host.
C6_Witness ==
  /\ last.op = "join" /\ last.code \in DOMAIN rooms
  /\ Len(rooms[last.code].players) >= 2
  /\ rooms[last.code].hostId = rooms[last.code].players[1].id
  /\ rooms[last.code].hostId # last.pid

\* The leave path has just removed the host last'.pid from room c.
HostLeftStep(c) ==
  /\ last'.op \in {"leave", "close"} /\ last'.code = c
  /\ c \in DOMAIN rooms /\ c \in DOMAIN rooms'
  /\ last'.pid = rooms[c].hostId
  /\ MapHas(rooms[c].players, last'.pid)

\* C7: when the host leaves, the new host is a player who was and still is in
\* the room; if nobody is left, hostId is absent and an eviction timer is armed.
C7_HostLeaves ==
  [][\A c \in Codes :
       HostLeftStep(c) =>
         IF Len(rooms'[c].players) > 0
         THEN rooms'[c].hostId \in
                PlayerIdsOf(rooms[c].players) \cap PlayerIdsOf(rooms'[c].players)
         ELSE /\ rooms'[c].hostId = NoId
              /\ Len(timers') = Len(timers) + 1
              /\ timers'[Len(timers')].code = c]_vars

\* C8: when the host leaves and others remain, the new host is the remaining
\* player with the earliest joinedAt, and newHost is sent to the remaining
\* members.
C8_EarliestJoinerIsNewHost ==
  [][\A c \in Codes :
       (HostLeftStep(c) /\ Len(rooms'[c].players) > 0) =>
         /\ rooms'[c].hostId \in DOMAIN onlinePlayers'
         /\ \A q \in PlayerIdsOf(rooms'[c].players) \cap DOMAIN onlinePlayers' :
              onlinePlayers'[rooms'[c].hostId].joinedAt <= onlinePlayers'[q].joinedAt
         /\ \E i \in 1..Len(last'.out) :
              /\ last'.out[i].type = "newHost"
              /\ last'.out[i].who = rooms'[c].hostId
              /\ last'.out[i].to =
                   {rooms'[c].players[j].socket : j \in
                      {n \in 1..Len(rooms'[c].players) :
                         conns'[rooms'[c].players[n].socket].state = "open"}}]_vars

\* C9: validation and mutation of a join are one atomic step: a player whose
\* join request joinRoom accepted is added only to a room that still passes
\* joinRoom's checks.
C9_JoinValidatedWhenApplied ==
  [][\A c \in Codes :
       (JoinedStep(c) /\ TicketKind(c, last'.pid) = "join") =>
         JoinRoomResult(rooms, c) = "success"]_vars

\* Room c has had no player for the whole eviction delay.
EmptyForDelay(c) ==
  /\ c \in DOMAIN rooms
  /\ Len(rooms[c].players) = 0
  /\ now - hist[c].emptySince >= EvictionDelayMs

\* C10: a room that has had no player for the whole eviction delay is
\* eventually removed, as long as the server runs.
C10_EmptyRoomEvicted ==
  \A c \in Codes : EmptyForDelay(c) ~> (c \notin DOMAIN rooms \/ looping)

\* The handler's output holds an event of this type sent to somebody.
Broadcast(out, type) ==
  \E i \in 1..Len(out) : out[i].type = type /\ out[i].to # {}

\* The handler's output holds an event of this type.
HasEvent(out, type) == \E i \in 1..Len(out) : out[i].type = type

\* The handler answered the requester with this error.
Rejected(out, err) ==
  \E i \in 1..Len(out) : out[i].type = "error" /\ out[i].val = err

\* C11: a room with at least one player is never removed: an eviction check
\* that runs when its room has a player again changes nothing.
C11_NoEvictionWhileOccupied ==
  [][\A c \in Codes :
       (c \in DOMAIN rooms /\ Len(rooms[c].players) > 0) =>
         /\ c \in DOMAIN rooms'
         /\ (last'.op = "evictionCheck" /\ last'.code = c) =>
              (rooms' = rooms /\ roomCodes' = roomCodes)]_vars

\* An eviction check has run for a room that has a player again.
C11_Witness ==
  /\ last.op = "evictionCheck"
  /\ last.code \in DOMAIN rooms
  /\ Len(rooms[last.code].players) > 0
  /\ hist[last.code].emptySince < now

\* C12: a room is removed only when it has had no player for the whole
\* eviction delay, counted from the last time it became empty.
C12_EvictedAfterFullWindow ==
  [][\A c \in Codes :
       (c \in DOMAIN rooms /\ c \notin DOMAIN rooms') =>
         now - hist[c].emptySince >= EvictionDelayMs]_vars

\* C13: a join (HTTP join request or WebSocket join message) for a room whose
\* game is running adds no player and hands out no player id.
C13_NoJoinWhileInProgress ==
  [][\A c \in Codes :
       (/\ last'.op \in {"join", "joinRoom"} /\ last'.code = c
        /\ c \in DOMAIN rooms /\ rooms[c].gameStarted) =>
         /\ PlayerIdsOf(rooms'[c].players) = PlayerIdsOf(rooms[c].players)
         /\ tickets' \subseteq tickets]_vars

\* A start request for room c has just been handled, coming from last'.pid
\* (the HTTP request names no player).
StartStep(c) ==
  /\ last'.op \in {"startGame", "apiStartGame"} /\ last'.code = c
  /\ c \in DOMAIN rooms

\* C14: a start request from anyone but the room's host is answered with
\* Unauthorized, broadcasts no gameStarted and leaves the room as it was.
C14_NonHostStartRejected ==
  [][\A c \in Codes :
       (StartStep(c) /\ last'.pid # rooms[c].hostId) =>
         /\ Rejected(last'.out, "Unauthorized")
         /\ ~HasEvent(last'.out, "gameStarted")
         /\ rooms' = rooms]_vars

\* C15: a start request for a room whose game is running starts no second
\* game: no gameStarted, no success reported, no further active game counted.
C15_NoSecondStart ==
  [][\A c \in Codes :
       (StartStep(c) /\ rooms[c].gameStarted) =>
         /\ ~HasEvent(last'.out, "gameStarted")
         /\ ~\E i \in 1..Len(last'.out) :
               last'.out[i].type = "response" /\ last'.out[i].val.success
         /\ activeGames' = activeGames
         /\ rooms' = rooms]_vars

C17_CallingEndsTheGame ==
  \A c \in Codes :
    (c \in DOMAIN rooms /\ rooms[c].gameStarted) ~>
      (c \notin DOMAIN rooms \/ ~rooms[c].gameStarted \/ looping)

\* C18: playerMarked reaches a member only for a number that was called in the
\* room's game.
C18_MarkedOnlyIfCalled ==
  \A i \in 1..Len(last.out) :
    (last.out[i].type = "playerMarked" /\ last.out[i].to # {}) =>
      /\ last.code \in DOMAIN hist
      /\ last.out[i].val \in Range(hist[last.code].called)

\* C19: a claimWin for a room whose game is not running sends no winner and
\* leaves the room as it was.
C19_NoWinnerOutsideGame ==
  [][\A c \in Codes :
       (/\ last'.op = "claimWin" /\ last'.code = c
        /\ c \in DOMAIN rooms /\ ~rooms[c].gameStarted) =>
         /\ ~Broadcast(last'.out, "winner")
         /\ rooms' = rooms]_vars

\* C20: a claim wins only with a pattern of the room's settings.winPatterns,
\* and verifyWin knows every pattern of a room's settings.winPatterns.
C20_KnownPatternsAreEnabled ==
  /\ \A i \in 1..Len(last.out) :
       last.out[i].type = "winner" =>
         /\ last.code \in DOMAIN rooms
         /\ last.out[i].val.pattern \in rooms[last.code].settings.winPatterns
  /\ \A c \in DOMAIN rooms : \A pattern \in rooms[c].settings.winPatterns :
       verifyWin(NoId, pattern, c).valid

\* C21: the amount of a winner broadcast is floor(stake * players * 0.8),
\* with the stake and the number of players of the room the claim was made in.
C21_PrizeFromRoom ==
  \A i \in 1..Len(last.out) :
    (/\ last.out[i].type = "winner" /\ last.code \in DOMAIN rooms
     /\ MapHas(rooms[last.code].players, last.out[i].who)) =>
      /\ last.out[i].val.amount =
           calculatePrize(rooms[last.code].stake, Len(rooms[last.code].players))

\* C22: an accepted claim puts the room back in the lobby, and a startGame
\* from the host of a room in the lobby starts a game, so that after a won
\* game the host can start the next one.
C22_NewGameAfterWin ==
  [][\A c \in Codes :
       /\ (/\ last'.op = "claimWin" /\ last'.code = c
           /\ HasEvent(last'.out, "winner")) =>
            (c \in DOMAIN rooms' /\ ~rooms'[c].gameStarted)
       /\ (/\ last'.op = "startGame" /\ last'.code = c
           /\ c \in DOMAIN rooms /\ ~rooms[c].gameStarted
           /\ last'.pid = rooms[c].hostId) =>
            (rooms'[c].gameStarted /\ HasEvent(last'.out, "gameStarted"))]_vars

\* The host has started a second game in a room after the first was won.
C22_Witness ==
  /\ last.op = "startGame" /\ HasEvent(last.out, "gameStarted")
  /\ last.code \in DOMAIN rooms
  /\ rooms[last.code].gameStarted
  /\ hist[last.code].games >= 2

\* C23: an updateSettings from anyone but the host changes no settings and
\* sends no settingsUpdated; from the host, the keys of the patch take the
\* patch's values, every other key keeps its value, and settingsUpdated is sent
\* with the new settings.
C23_SettingsMergedByHostOnly ==
  [][\A c \in Codes :
       (last'.op = "updateSettings" /\ last'.code = c /\ c \in DOMAIN rooms) =>
         IF last'.pid = rooms[c].hostId
         THEN /\ \E patch \in SettingsPatches :
                   /\ DOMAIN rooms'[c].settings =
                        DOMAIN rooms[c].settings \cup DOMAIN patch
                   /\ \A key \in DOMAIN patch : rooms'[c].settings[key] = patch[key]
                   /\ \A key \in DOMAIN rooms[c].settings \ DOMAIN patch :
                        rooms'[c].settings[key] = rooms[c].settings[key]
              /\ \E i \in 1..Len(last'.out) :
                   /\ last'.out[i].type = "settingsUpdated"
                   /\ last'.out[i].val = rooms'[c].settings
                   /\ last'.out[i].to = Recipients(rooms, c, NoId)'
         ELSE rooms' = rooms /\ ~HasEvent(last'.out, "settingsUpdated")]_vars

\* The host has patched callInterval; the other settings are as created, and
\* the members were told.
C23_Witness ==
  /\ last.op = "updateSettings" /\ Broadcast(last.out, "settingsUpdated")
  /\ last.code \in DOMAIN rooms
  /\ rooms[last.code].settings.callInterval = 3000
  /\ rooms[last.code].settings.autoCallNumbers
  /\ rooms[last.code].settings.winPatterns = getWinPatterns(rooms[last.code].gameType)

\* C24: a leave for a player who is not in the room changes nothing: not the
\* room, not the online players, not the pending eviction timers.
C24_LeaveOfAbsentIsNoOp ==
  [][\A c \in Codes :
       (/\ last'.op = "leave" /\ last'.code = c /\ c \in DOMAIN rooms
        /\ ~MapHas(rooms[c].players, last'.pid)) =>
         /\ rooms' = rooms
         /\ onlinePlayers' = onlinePlayers
         /\ timers' = timers]_vars

\* C25: when a socket closes, every member who joined through it is removed
\* from the room and one playerLeft is sent for each; the host role moves to a
\* remaining member if the host was among them, and an eviction timer is armed
\* if the room is left empty.
C25_CloseRunsLeavePath ==
  [][\A k \in ConnIds :
       (/\ conns[k].state = "open" /\ conns'[k].state = "closed"
        /\ conns[k].roomCode \in DOMAIN rooms) =>
         LET c == conns[k].roomCode
             gone == {rooms[c].players[i].id : i \in
                        {j \in 1..Len(rooms[c].players) : rooms[c].players[j].socket = k}}
         IN /\ gone \cap PlayerIdsOf(rooms'[c].players) = {}
            /\ \A p \in gone :
                 Cardinality({i \in 1..Len(last'.out) :
                                last'.out[i].type = "playerLeft" /\ last'.out[i].who = p}) = 1
            /\ (gone # {} /\ Len(rooms'[c].players) > 0) =>
                 MapHas(rooms'[c].players, rooms'[c].hostId)
            /\ (gone # {} /\ Len(rooms'[c].players) = 0) =>
                 Len(timers') = Len(timers) + 1]_vars

C27_CreateFailsWhenExhausted ==
  [][(last'.op = "createRoom" /\ Codes \subseteq roomCodes) =>
       /\ Rejected(last'.out, "ResourceExhausted")
       /\ ~looping'
       /\ rooms' = rooms]_vars

\* The gameTypes getWinPatterns has an entry for.
SupportedGameTypes == {"75ball", "90ball", "30ball", "pattern"}

\* C28: createRoom stores a room, takes a code or counts a room only for a
\* supported gameType, maxPlayers > 0 and stake >= 0; the room it stores is in
\* the lobby, has no player and has its variant's win patterns.
C28_CreateValidates ==
  [][(last'.op = "createRoom") =>
       IF rooms' = rooms
       THEN roomCodes' = roomCodes /\ totalRoomsCreated' = totalRoomsCreated
       ELSE /\ last'.code \in DOMAIN rooms'
            /\ rooms'[last'.code].gameType \in SupportedGameTypes
            /\ rooms'[last'.code].maxPlayers > 0
            /\ rooms'[last'.code].stake >= 0
            /\ ~rooms'[last'.code].gameStarted
            /\ rooms'[last'.code].players = <<>>
            /\ rooms'[last'.code].settings.winPatterns =
                 getWinPatterns(rooms'[last'.code].gameType)]_vars

\* C29: once the player createRoom answered has joined the room, that player
\* is the room's host.
C29_CreatorIsHost ==
  \A c \in DOMAIN rooms :
    MapHas(rooms[c].players, hist[c].creator) => rooms[c].hostId = hist[c].creator

\* The sockets a handler's sends threw on.
Failed(out) ==
  UNION {out[i].to : i \in {j \in 1..Len(out) : out[j].type \in {"sendError", "exception"}}}

\* C30: when a member is removed and a send throws, the member stays removed,
\* and every remaining member with an open socket whose own send did not throw
\* still gets playerLeft, and newHost if the host role moved.
C30_FanOutBestEffort ==
  [][\A c \in Codes :
       (/\ last'.op \in {"leave", "close"} /\ last'.code = c
        /\ c \in DOMAIN rooms /\ MapHas(rooms[c].players, last'.pid)) =>
         /\ ~MapHas(rooms'[c].players, last'.pid)
         /\ \A sock \in Recipients(rooms, c, NoId)' \ Failed(last'.out) :
              /\ \E i \in 1..Len(last'.out) :
                   last'.out[i].type = "playerLeft" /\ sock \in last'.out[i].to
              /\ rooms'[c].hostId # rooms[c].hostId =>
                   \E i \in 1..Len(last'.out) :
                     last'.out[i].type = "newHost" /\ sock \in last'.out[i].to]_vars

\* The messages only the host may send.
HostOnlyOps == {"startGame", "callNumber", "updateSettings"}

\* The sockets the room's host is a member through.
HostSockets(room) ==
  {room.players[i].socket : i \in {j \in 1..Len(room.players) :
                                     room.players[j].id = room.hostId}}

\* C32: a startGame, callNumber or updateSettings changes a room or sends
\* something only when it came in on the socket of the room's host.
C32_HostOnlyOverHostSocket ==
  [][(/\ last'.op \in HostOnlyOps /\ last'.code \in DOMAIN rooms
      /\ (rooms' # rooms \/ hist' # hist \/ last'.out # <<>>)) =>
       sender' \in HostSockets(rooms[last'.code])]_vars

\* C33: a member whose socket stays open leaves a room only by a leave
\* message that came in on that socket.
C33_RemovedOnlyOverOwnSocket ==
  [][\A c \in DOMAIN rooms \cap DOMAIN rooms' :
       \A i \in 1..Len(rooms[c].players) :
         (/\ conns'[rooms[c].players[i].socket].state = "open"
          /\ ~MapHas(rooms'[c].players, rooms[c].players[i].id)) =>
           (last'.op = "leave" /\ sender' = rooms[c].players[i].socket)]_vars

\* The members of a room that carry isHost.
HostsOf(room) == {i \in 1..Len(room.players) : room.players[i].isHost}

\* C34: a room with players has exactly one member with isHost, and that
\* member's id is the room's hostId.
C34_OneHostAmongMembers ==
  \A c \in DOMAIN rooms :
    Len(rooms[c].players) > 0 =>
      /\ Cardinality(HostsOf(rooms[c])) = 1
      /\ \A i \in HostsOf(rooms[c]) : rooms[c].players[i].id = rooms[c].hostId

\* The host has left a room of several and the role has moved to a member.
C34_Witness ==
  /\ last.op \in {"leave", "close"} /\ HasEvent(last.out, "newHost")
  /\ last.code \in DOMAIN rooms
  /\ Len(rooms[last.code].players) > 0
  /\ ~MapHas(rooms[last.code].players, last.pid)

\* C35: a room without players is in the lobby.
C35_EmptyRoomInLobby ==
  \A c \in DOMAIN rooms : Len(rooms[c].players) = 0 => ~rooms[c].gameStarted

\* C36: activeGames is the number of live rooms whose game is running.
C36_ActiveGamesCountsRunning ==
  activeGames = Cardinality({c \in DOMAIN rooms : rooms[c].gameStarted})

\* Page b's client has a reconnect pending or a socket on its way.
Retrying(b) ==
  \/ rtcClient[b].reconnectTimers > 0
  \/ \E i \in SockIds : rtcClient[b].socks[i].state = "connecting"

\* C39: after disconnect(), and until its owner connects again, the client
\* arms no reconnect timer and creates no WebSocket.
C39_NoReconnectAfterDisconnect ==
  [][\A b \in Browsers :
       (rtcClient[b].disconnectCalled /\ rtcClient'[b].disconnectCalled) =>
         /\ rtcClient'[b].reconnectTimers <= rtcClient[b].reconnectTimers
         /\ \A i \in SockIds :
              rtcClient'[b].socks[i].state = "connecting" =>
                rtcClient[b].socks[i].state = "connecting"]_vars

\* C40: reconnectAttempts never exceeds maxReconnectAttempts; at
\* maxReconnectAttempts a further close arms no timer; and a client that is
\* retrying eventually is not, whatever fails.
C40_ReconnectBounded ==
  /\ [](\A b \in Browsers : rtcClient[b].reconnectAttempts <= maxReconnectAttempts)
  /\ [][\A b \in Browsers :
          (/\ rtcClient[b].reconnectAttempts = maxReconnectAttempts
           /\ rtcClient'[b].reconnectAttempts # 0) =>
            rtcClient'[b].reconnectTimers <= rtcClient[b].reconnectTimers]_vars
  /\ \A b \in RtcBrowsers : Retrying(b) ~> ~Retrying(b)

\* Five attempts in a row have failed and the client has given up.
C40_Witness ==
  \E b \in RtcBrowsers :
    /\ rtcClient[b].reconnectAttempts = maxReconnectAttempts
    /\ ~Retrying(b)
    /\ ~rtcClient[b].connected
    /\ \A i \in SockIds : rtcClient[b].socks[i].state = "closed"

\* Page b has just sent a message of one of these types, and the server has
\* handled it.
PageSent(b, ops) ==
  /\ last'.op \in ops
  /\ requests' = requests + 1
  /\ Sends(rtcClient[b])
  /\ sender' = SendConn(rtcClient[b])

\* C31: a startGame or callNumber message of a page carries the page's
\* playerId, and when that is the room's hostId the message takes effect: the
\* game starts, the number is announced.
C31_HostMessagesCarryPlayerId ==
  [][\A b \in Browsers :
       PageSent(b, {"startGame", "callNumber"}) =>
         /\ last'.pid = gameState[b].playerId
         /\ (/\ last'.code \in DOMAIN rooms
             /\ rooms[last'.code].hostId = gameState[b].playerId) =>
              /\ (last'.op = "startGame" /\ ~rooms[last'.code].gameStarted) =>
                   rooms'[last'.code].gameStarted
              /\ (last'.op = "callNumber" /\ rooms[last'.code].gameStarted) =>
                   HasEvent(last'.out, "numberCalled")]_vars

\* C37: when a page calls a number, it records one number, the one the server
\* announces in numberCalled, and afterwards the pages of the room hold the
\* same calledNumbers.
C37_CalledNumbersAgree ==
  [][\A b \in Browsers :
       PageSent(b, {"callNumber"}) =>
         /\ \E number \in 1..MaxNumber(rooms[last'.code].gameType) :
              /\ gameState'[b].calledNumbers =
                   Append(gameState[b].calledNumbers, number)
              /\ \E i \in 1..Len(last'.out) :
                   last'.out[i].type = "numberCalled" /\ last'.out[i].val[2] = number
         /\ \A b2 \in Browsers :
              gameState'[b2].roomCode = gameState'[b].roomCode =>
                gameState'[b2].calledNumbers = gameState'[b].calledNumbers]_vars

\* The ids on a page's player list.
ListedOn(g) == {g.players[i].id : i \in 1..Len(g.players)}

\* C38: once a page has registered its handlers, each of its events is
\* handled by the handler it registered; a playerJoined it receives puts the
\* player on its list and a playerLeft takes the player off.
C38_RegisteredHandlerRuns ==
  [][\A b \in Browsers :
       /\ "gameStarted" \in DOMAIN rtcClient'[b].messageHandlers =>
            \A e \in GameEvents :
              /\ e \in DOMAIN rtcClient'[b].messageHandlers
              /\ rtcClient'[b].messageHandlers[e] = "game"
       /\ \A i \in 1..Len(last'.out) :
            (/\ last'.out[i].to \cap ConnsOf(rtcClient'[b]) # {}
             /\ "gameStarted" \in DOMAIN rtcClient'[b].messageHandlers) =>
              /\ last'.out[i].type = "playerJoined" =>
                   last'.out[i].who \in ListedOn(gameState'[b])
              /\ last'.out[i].type = "playerLeft" =>
                   last'.out[i].who \notin ListedOn(gameState'[b])]_vars

====
